---- MODULE Spec2Model ----
(***************************************************************************)
(* Model of the tsv wrapper class (src/__init__.py): a Session over either *)
(* a file path or an in-memory text buffer, its header management and its  *)
(* readlines / writelines operations.                                      *)
(*                                                                         *)
(* Granularity.  In the session machine (Spec) a text is a sequence of     *)
(* lines as csv.reader delivers them: a line is the record of its fields   *)
(* (a blank line is the empty record) or Malformed, a line the parser      *)
(* rejects.  The character level (csv field splitting and joining for the  *)
(* 'excel-tab' dialect) is modelled separately and used by the round-trip  *)
(* machine (SpecRT).                                                       *)
(***************************************************************************)
EXTENDS Integers, Sequences, FiniteSets, TLC

(***************************************************************************)
(* Bounds of the model                                                     *)
(***************************************************************************)
MaxLines == 2      \* longest source text, in lines (session machine)
MaxRows  == 2      \* longest row sequence handed to writelines
MaxCalls == 2      \* readlines / writelines calls made on one Session
MaxChars == 3      \* longest source text, in characters (round-trip machine)

(***************************************************************************)
(* Python values                                                           *)
(***************************************************************************)
None  == "<None>"            \* None where a string is expected
NoneH == <<"<None>">>        \* None where a list of names is expected

\* what csv.reader makes of a line of its source: the record of its fields,
\* or csv.Error
Line(fields) == [bad |-> FALSE, f |-> fields]
Malformed    == [bad |-> TRUE,  f |-> <<>>]
Blank        == Line(<<>>)

Lines(recs) == [i \in 1..Len(recs) |-> Line(recs[i])]

SeqsUpTo(S, n) == UNION {[1..k -> S] : k \in 0..n}

\* rows as Python objects: a list of fields, a dict (ordered key/value pairs,
\* with the DictReader's restkey list kept apart), or None
ListRow(fields) == [kind |-> "list", v |-> fields, rest |-> <<>>]
DictRow(pairs)  == [kind |-> "dict", v |-> pairs,  rest |-> <<>>]
NoneRow         == [kind |-> "None", v |-> <<>>,   rest |-> <<>>]

Keys(row) == [i \in 1..Len(row.v) |-> row.v[i][1]]

Range(f) == {f[i] : i \in DOMAIN f}

\* bool(row) for the row objects above
Truthy(row) ==
    CASE row.kind = "None" -> FALSE
      [] row.kind = "list" -> row.v # <<>>
      [] OTHER             -> row.v # <<>> \/ row.rest # <<>>

(***************************************************************************)
(* Inputs                                                                  *)
(***************************************************************************)
LineVals == {Line(<<"a", "b">>), Blank}
Texts    == SeqsUpTo(LineVals, MaxLines)

\* the text= argument: None, a str, an io.StringIO, or a value of another type
TextArgs ==
    {[kind |-> "None", buf |-> <<>>, truthy |-> FALSE]}
    \cup {[kind |-> "str", buf |-> t, truthy |-> (t # <<>>)] : t \in Texts}
    \cup {[kind |-> "StringIO", buf |-> <<>>, truthy |-> TRUE]}
    \cup {[kind |-> "other", buf |-> <<>>, truthy |-> b] : b \in BOOLEAN}

\* the filename= argument: None or a path
FileArgs == {None, "data.tsv"}

HeaderArgs == {NoneH, <<"h", "k">>}

\* headers_process_by: None, a transform that upper-cases the names, a
\* transform that raises
TransformArgs == {None, "upper", "raise"}

\* process_by of readlines: None, a transform that marks every second line
\* to be skipped, a transform that raises
RowTransformArgs == {None, "skip", "raise"}

RowVals == {ListRow(<<"a", "b">>),
            DictRow(<<<<"h", "1">>, <<"k", "2">>>>),
            DictRow(<<>>)}
RowSeqs == SeqsUpTo(RowVals, MaxRows)

(***************************************************************************)
(* State                                                                   *)
(***************************************************************************)
VARIABLES
    alive,                  \* a Session has been constructed
    filename,               \* self.filename
    text,                   \* self.text: the io.StringIO (or None)
    file_is_exists,         \* self.file_is_exists
    headers,                \* self.headers
    headers_is_first_line,  \* self.headers_is_first_line
    headers_process_by,     \* self.headers_process_by
    disk,                   \* the file system entry of "data.tsv"
    gen,                    \* the generator object returned by readlines
    calls,                  \* number of readlines / writelines calls so far
    open_files,             \* number of file streams currently open
    last,                   \* what the last call did (for the properties)
    rt                      \* the round-trip machine (SpecRT)

vars == <<alive, filename, text, file_is_exists, headers,
          headers_is_first_line, headers_process_by, disk, gen, calls,
          open_files, last, rt>>

session == <<alive, filename, text, file_is_exists, headers,
             headers_is_first_line, headers_process_by>>

NoText == [set |-> FALSE, buf |-> <<>>, pos |-> 0, closed |-> FALSE]
StringIO(buf) == [set |-> TRUE, buf |-> buf, pos |-> 0, closed |-> FALSE]

\* the generator object: where it stands (pc), the arguments of the call, the
\* stream it holds, and its reader
NoGen == [pc |-> "none", asdict |-> FALSE, process_by |-> None,
          stream |-> "none", fpos |-> 0, fieldnames |-> NoneH,
          rln |-> 0, dln |-> 0, opens |-> 0]

\* the last call: its name, its arguments, the exception it raised ("ok" for
\* none, "end" for a generator that finished), the number of streams the
\* operation has acquired, the number of lines the call consumed, the row
\* it yielded, the records it handed to the csv writer, whether writelines
\* inferred the headers from the rows
NoLast == [op |-> "none", err |-> "ok", opens |-> 0, examined |-> 0,
           row |-> NoneRow, out |-> <<>>, rows |-> <<>>, isgen |-> FALSE,
           asdict |-> FALSE, overwrite |-> FALSE, first |-> FALSE,
           infer |-> FALSE, farg |-> None, targ |-> "None",
           tempty |-> FALSE]

\* the round trip: where it stands, the source text, the arguments, the rows
\* read, the exception raised ("ok" for none) and the text returned
NoRT == [pc |-> "off", src |-> <<>>, hifl |-> TRUE, lazy |-> TRUE,
         rows |-> <<>>, err |-> "ok", out |-> <<>>]

\* @property has_headers
has_headers(h) == h # NoneH /\ h # <<>>

\* Path(filename).exists()
PathExists(f, d) == d.exists

DiskInits == {[exists |-> FALSE, content |-> <<>>],
              [exists |-> TRUE,
               content |-> <<Line(<<"a", "b">>), Malformed>>]}

Init ==
    /\ alive = FALSE
    /\ filename = None
    /\ text = NoText
    /\ file_is_exists = FALSE
    /\ headers = NoneH
    /\ headers_is_first_line = TRUE
    /\ headers_process_by = None
    /\ disk \in DiskInits
    /\ gen = NoGen
    /\ calls = 0
    /\ open_files = 0
    /\ last = NoLast
    /\ rt = NoRT

(***************************************************************************)
(* tsv.__init__                                                            *)
(***************************************************************************)
\* the two configuration checks; truthiness as Python computes it
BothGiven(f, t)    == f # None /\ t.truthy
NeitherGiven(f, t) == f = None /\ t.kind = "None"

InitError(f, t) ==
    CASE BothGiven(f, t)    -> "Error"
      [] NeitherGiven(f, t) -> "Error"
      [] t.kind = "other"   -> "TypeError"
      [] OTHER              -> "ok"

Construct(f, t, h, hifl, hpb) ==
    /\ ~alive
    /\ LET e == InitError(f, t) IN
       /\ last' = [NoLast EXCEPT !.op = "init", !.err = e,
                                 !.farg = f, !.targ = t.kind,
                                 !.tempty = (t.buf = <<>>)]
       /\ IF e = "ok"
          THEN /\ alive' = TRUE
               /\ filename' = f
               /\ text' = IF t.kind = "None" THEN NoText ELSE StringIO(t.buf)
               /\ file_is_exists' = IF t.kind # "None" THEN TRUE
                                    ELSE PathExists(f, disk)
               /\ headers' = h
               /\ headers_is_first_line' = hifl
               /\ headers_process_by' = hpb
          ELSE UNCHANGED session
    /\ UNCHANGED <<disk, gen, calls, open_files, rt>>

(***************************************************************************)
(* csv.reader / csv.DictReader over a stream of lines                      *)
(*                                                                         *)
(* A reader is [asdict, fieldnames, pos, rln, dln]: DictReader or plain    *)
(* reader, DictReader._fieldnames, the position in the underlying stream,  *)
(* the plain reader's line_num and the DictReader's line_num.  src is the  *)
(* content of the stream.  Results carry st: "ok" or the exception raised. *)
(***************************************************************************)
\* next(csv.reader)
RawNext(src, rd) ==
    IF rd.pos >= Len(src)
    THEN [st |-> "StopIteration", line |-> <<>>, rd |-> rd]
    ELSE LET l   == src[rd.pos + 1]
             rd1 == [rd EXCEPT !.pos = @ + 1, !.rln = @ + 1]
         IN  IF l.bad
             THEN [st |-> "csv.Error", line |-> <<>>, rd |-> rd1]
             ELSE [st |-> "ok", line |-> l.f, rd |-> rd1]

\* DictReader.fieldnames (the property read): reads the first line when no
\* field names are registered, and copies the reader's line_num
FieldnamesGet(src, rd) ==
    LET FirstLine(r) ==
            CASE r.st = "ok" ->
                   [st |-> "ok",
                    rd |-> [r.rd EXCEPT !.fieldnames = r.line,
                                        !.dln = r.rd.rln]]
              [] r.st = "StopIteration" ->
                   [st |-> "ok", rd |-> [rd EXCEPT !.dln = rd.rln]]
              [] OTHER ->
                   [st |-> r.st, rd |-> r.rd]
    IN  IF rd.fieldnames = NoneH
        THEN FirstLine(RawNext(src, rd))
        ELSE [st |-> "ok", rd |-> [rd EXCEPT !.dln = rd.rln]]

\* DictReader.__next__: while row == []: row = next(self.reader)
RECURSIVE SkipBlank(_, _, _)
SkipBlank(src, line, rd) ==
    LET Again(r) == IF r.st = "ok" THEN SkipBlank(src, r.line, r.rd) ELSE r
    IN  IF line # <<>>
        THEN [st |-> "ok", line |-> line, rd |-> rd]
        ELSE Again(RawNext(src, rd))

\* dict(zip(fieldnames, row)) with restkey None and restval None
ZipRow(fn, row) ==
    LET lf == Len(fn)
        lr == Len(row)
    IN  [kind |-> "dict",
         v    |-> [i \in 1..lf |-> <<fn[i], IF i <= lr THEN row[i] ELSE None>>],
         rest |-> IF lf < lr THEN SubSeq(row, lf + 1, lr) ELSE <<>>]

\* DictReader.__next__
DictNext(src, rd) ==
    LET \* d = dict(zip(self.fieldnames, row))
        Zip(sb) ==
            IF sb.st # "ok" THEN [st |-> sb.st, row |-> NoneRow, rd |-> sb.rd]
            ELSE IF sb.rd.fieldnames = NoneH
            THEN [st |-> "TypeError", row |-> NoneRow, rd |-> sb.rd]
            ELSE [st |-> "ok", row |-> ZipRow(sb.rd.fieldnames, sb.line),
                  rd |-> sb.rd]
        \* row = next(self.reader); self.line_num = self.reader.line_num
        Row(r) ==
            IF r.st # "ok" THEN [st |-> r.st, row |-> NoneRow, rd |-> r.rd]
            ELSE Zip(SkipBlank(src, r.line, [r.rd EXCEPT !.dln = r.rd.rln]))
        \* if self.line_num == 0: self.fieldnames
        Names(fg) ==
            IF fg.st # "ok" THEN [st |-> fg.st, row |-> NoneRow, rd |-> fg.rd]
            ELSE Row(RawNext(src, fg.rd))
    IN  Names(IF rd.dln = 0 THEN FieldnamesGet(src, rd)
                            ELSE [st |-> "ok", rd |-> rd])

\* next(reader) for the reader that tsv.reader yields
ReaderNext(src, rd) ==
    IF rd.asdict
    THEN DictNext(src, rd)
    ELSE LET AsList(r) == [st |-> r.st, row |-> ListRow(r.line), rd |-> r.rd]
         IN  AsList(RawNext(src, rd))

\* reader.line_num as readlines reads it
LineNum(rd) == IF rd.asdict THEN rd.dln ELSE rd.rln

(***************************************************************************)
(* Header Manager                                                          *)
(***************************************************************************)
\* the loop of _detect_headers: while not headers: headers = next(reader)
RECURSIVE DetectLoop(_, _)
DetectLoop(src, rd) ==
    LET Got(n) ==
            IF n.st # "ok" THEN [st |-> n.st, headers |-> NoneH, rd |-> n.rd]
            ELSE IF ~Truthy(n.row) THEN DetectLoop(src, n.rd)
            ELSE IF n.row.kind = "dict"
                 THEN IF n.row.rest = <<>>
                      THEN [st |-> "KeyError", headers |-> NoneH, rd |-> n.rd]
                      ELSE [st |-> "ok", headers |-> n.row.rest,
                            rd |-> [n.rd EXCEPT !.fieldnames = n.row.rest]]
                 ELSE [st |-> "ok", headers |-> n.row.v, rd |-> n.rd]
    IN  Got(ReaderNext(src, rd))

\* tsv._detect_headers
DetectHeaders(h, hifl, src, rd) ==
    IF has_headers(h) THEN [st |-> "ok", headers |-> h, rd |-> rd]
    ELSE IF ~hifl THEN [st |-> "ok", headers |-> h, rd |-> rd]
    ELSE
    LET Loop(d) == IF d.st = "ok" THEN d ELSE [d EXCEPT !.headers = h]
        \* getattr(reader, 'fieldnames', None)
        Names(fg) ==
            IF fg.st # "ok" THEN [st |-> fg.st, headers |-> h, rd |-> fg.rd]
            ELSE IF rd.asdict /\ has_headers(fg.rd.fieldnames)
            THEN [st |-> "ok", headers |-> fg.rd.fieldnames, rd |-> fg.rd]
            ELSE Loop(DetectLoop(src, fg.rd))
    IN  Names(IF rd.asdict THEN FieldnamesGet(src, rd)
                           ELSE [st |-> "ok", rd |-> rd])

Upper(name) ==
    CASE name = "a" -> "A" [] name = "b" -> "B" [] name = "c" -> "C"
      [] name = "h" -> "H" [] name = "k" -> "K" [] OTHER -> name

\* the caller's headers_process_by applied to the header list
Transform(hpb, h) ==
    CASE hpb = "raise" -> [st |-> "TransformError", headers |-> h]
      [] h = NoneH     -> [st |-> "TypeError", headers |-> h]
      [] OTHER         -> [st |-> "ok",
                           headers |-> [i \in 1..Len(h) |-> Upper(h[i])]]

\* tsv._process_headers
ProcessHeaders(h, hpb, src, rd) ==
    IF hpb = None THEN [st |-> "ok", headers |-> h, rd |-> rd]
    ELSE
    LET \* reader_fieldnames = getattr(reader, 'fieldnames', None)
        Names(t, fg) ==
            IF fg.st # "ok"
            THEN [st |-> fg.st, headers |-> t.headers, rd |-> fg.rd]
            ELSE IF rd.asdict /\ has_headers(fg.rd.fieldnames)
                    /\ fg.rd.fieldnames # t.headers
            THEN [st |-> "ok", headers |-> t.headers,
                  rd |-> [fg.rd EXCEPT !.fieldnames = t.headers]]
            ELSE [st |-> "ok", headers |-> t.headers, rd |-> fg.rd]
        \* self.headers = self.headers_process_by(self.headers)
        Assigned(t) ==
            IF t.st # "ok" THEN [st |-> t.st, headers |-> h, rd |-> rd]
            ELSE Names(t, IF rd.asdict THEN FieldnamesGet(src, rd)
                                       ELSE [st |-> "ok", rd |-> rd])
    IN  Assigned(Transform(hpb, h))

(***************************************************************************)
(* readlines: the row loop                                                 *)
(***************************************************************************)
\* the caller's process_by applied to a line
RowTransform(pb, row, n) ==
    CASE pb = None    -> [st |-> "ok", row |-> row]
      [] pb = "raise" -> [st |-> "RowTransformError", row |-> row]
      [] OTHER        -> [st |-> "ok",
                          row |-> IF n % 2 = 0 THEN NoneRow ELSE row]

\* runs the for loop up to its next yield, its end or an exception
RECURSIVE RowLoop(_, _, _)
RowLoop(src, rd, pb) ==
    LET Body(n, t) ==
            IF t.st # "ok" THEN [st |-> t.st, row |-> NoneRow, rd |-> n.rd]
            ELSE IF t.row = NoneRow THEN RowLoop(src, n.rd, pb)
            ELSE [st |-> "yield", row |-> t.row, rd |-> n.rd]
        Got(n) ==
            CASE n.st = "StopIteration" ->
                    [st |-> "end", row |-> NoneRow, rd |-> n.rd]
              [] n.st = "csv.Error" ->
                    [st |-> "SystemExit", row |-> NoneRow, rd |-> n.rd]
              [] n.st # "ok" ->
                    [st |-> n.st, row |-> NoneRow, rd |-> n.rd]
              [] OTHER ->
                    Body(n, RowTransform(pb, n.row, LineNum(n.rd)))
    IN  Got(ReaderNext(src, rd))

(***************************************************************************)
(* tsv.open: the scoped acquisition of the stream                          *)
(***************************************************************************)
\* Path.open(mode): "w" creates or truncates the file
OpenFile(mode, f, d) ==
    CASE mode = "r" /\ ~d.exists   -> [st |-> "FileNotFoundError", disk |-> d]
      [] mode = "r"                -> [st |-> "ok", disk |-> d]
      [] OTHER                     -> [st |-> "ok",
                                       disk |-> [exists |-> TRUE, content |-> <<>>]]

\* entering `with self.open(...)`: up to the first yield of the generator
OpenEnter(mode, f, t, d) ==
    IF t.set
    THEN [st |-> "ok", stream |-> "text", disk |-> d]
    ELSE LET o == OpenFile(mode, f, d) IN
         [st |-> o.st, stream |-> IF o.st = "ok" THEN "file" ELSE "none",
          disk |-> o.disk]

\* leaving `with self.open(...)` after the body completed: the generator is
\* resumed after the yield it stopped at and must finish; when it yielded
\* the text and a file name is set as well it opens the file and yields
\* again, and the context manager raises RuntimeError
OpenExit(mode, f, stream, d) ==
    IF stream = "text" /\ f # None
    THEN LET o == OpenFile(mode, f, d) IN
         [st |-> IF o.st = "ok" THEN "RuntimeError" ELSE o.st,
          acquired |-> IF o.st = "ok" THEN 1 ELSE 0, disk |-> o.disk]
    ELSE [st |-> "ok", acquired |-> 0, disk |-> d]

\* the `with self.file.open(...) as f` of open, left on any exit: f is closed;
\* the text stream was yielded bare and stays open
ReleaseFiles(stream, n) == IF stream = "file" THEN n - 1 ELSE n

(***************************************************************************)
(* readlines                                                               *)
(***************************************************************************)
\* readlines(asdict=..., process_by=...): creates the generator, runs nothing
StartRead(asdict, pb) ==
    /\ alive
    /\ gen.pc \in {"none", "closed"}
    /\ calls < MaxCalls
    /\ calls' = calls + 1
    /\ gen' = [NoGen EXCEPT !.pc = "created", !.asdict = asdict,
                            !.process_by = pb]
    /\ last' = [NoLast EXCEPT !.op = "readlines", !.asdict = asdict]
    /\ UNCHANGED <<session, disk, open_files, rt>>

\* an exception that leaves the body of the generator as the caller sees it:
\* a StopIteration raised inside the body reaches the caller as RuntimeError
\* (PEP 479)
Escaped(e) == IF e = "StopIteration" THEN "RuntimeError" ELSE e

Source(stream) == IF stream = "text" THEN text.buf ELSE disk.content

\* the first call of next(): tsv.reader up to its yield, header detection,
\* header post-processing, then the row loop up to its first yield
FirstSegment ==
    LET none == [asdict |-> gen.asdict, fieldnames |-> NoneH, pos |-> 0,
                 rln |-> 0, dln |-> 0]
        fail(e, str, h, rd) ==
            [st |-> Escaped(e), stream |-> str,
             headers |-> h, rd |-> rd, row |-> NoneRow,
             exc |-> TRUE]
        \* for line in reader
        Rows(o, ph, l) ==
            [st |-> l.st, stream |-> o.stream, headers |-> ph.headers,
             rd |-> l.rd, row |-> l.row,
             exc |-> (l.st \notin {"yield", "end"})]
        \* self._process_headers(reader)
        Processed(o, src, ph) ==
            IF ph.st # "ok" THEN fail(ph.st, o.stream, ph.headers, ph.rd)
            ELSE Rows(o, ph, RowLoop(src, ph.rd, gen.process_by))
        \* self._detect_headers(reader)
        Detected(o, src, dh) ==
            IF dh.st # "ok" THEN fail(dh.st, o.stream, dh.headers, dh.rd)
            ELSE Processed(o, src,
                           ProcessHeaders(dh.headers, headers_process_by,
                                          src, dh.rd))
        \* with self.open(**kwargs) as tsvfile: yield csv.reader(tsvfile, ...)
        Opened(o) ==
            IF o.st # "ok" THEN fail(o.st, "none", headers, none)
            ELSE Detected(o, Source(o.stream),
                          DetectHeaders(headers, headers_is_first_line,
                                        Source(o.stream),
                                        [none EXCEPT
                                           !.fieldnames =
                                               IF gen.asdict /\ has_headers(headers)
                                               THEN headers ELSE NoneH,
                                           !.pos = IF o.stream = "text"
                                                   THEN text.pos ELSE 0]))
    IN
    IF ~file_is_exists
    THEN fail("FileNotFoundError", "none", headers, none)
    ELSE Opened(OpenEnter("r", filename, text, disk))

\* a later call of next(): the row loop from where it was suspended
LaterSegment ==
    LET Rows(l) ==
            [st |-> l.st, stream |-> gen.stream, headers |-> headers,
             rd |-> l.rd, row |-> l.row,
             exc |-> (l.st \notin {"yield", "end"})]
    IN  Rows(RowLoop(Source(gen.stream),
                     [asdict |-> gen.asdict, fieldnames |-> gen.fieldnames,
                      pos |-> IF gen.stream = "text" THEN text.pos
                                                    ELSE gen.fpos,
                      rln |-> gen.rln, dln |-> gen.dln],
                     gen.process_by))

\* next(generator)
Resume ==
    LET first == gen.pc = "created"
        \* seg: the segment of the body that ran; oe: how `with self.open`
        \* was left when the body completed
        Step(seg, oe) ==
            LET got   == IF first /\ seg.stream # "none" THEN 1 ELSE 0
                held  == IF first /\ seg.stream = "file" THEN open_files + 1
                                                         ELSE open_files
                start == IF seg.stream = "text" THEN text.pos
                         ELSE IF first THEN 0 ELSE gen.fpos
                err   == CASE seg.st = "yield" -> "ok"
                           [] seg.st = "end"   -> IF oe.st = "ok" THEN "end"
                                                                  ELSE oe.st
                           [] OTHER            -> seg.st
            IN
            /\ headers' = seg.headers
            /\ text' = IF seg.stream = "text"
                       THEN [text EXCEPT !.pos = seg.rd.pos] ELSE text
            /\ disk' = oe.disk
            /\ IF seg.st = "yield"
               THEN /\ gen' = [gen EXCEPT !.pc = "suspended",
                                          !.stream = seg.stream,
                                          !.fpos = IF seg.stream = "file"
                                                   THEN seg.rd.pos ELSE 0,
                                          !.fieldnames = seg.rd.fieldnames,
                                          !.rln = seg.rd.rln,
                                          !.dln = seg.rd.dln,
                                          !.opens = gen.opens + got]
                    /\ open_files' = held
               ELSE /\ gen' = [NoGen EXCEPT !.pc = "closed"]
                    /\ open_files' = ReleaseFiles(seg.stream, held)
            /\ last' = [NoLast EXCEPT !.op = "next", !.err = err,
                                      !.first = first,
                                      !.asdict = gen.asdict,
                                      !.opens = gen.opens + got + oe.acquired,
                                      !.examined = seg.rd.pos - start,
                                      !.row = seg.row]
        Ran(seg) ==
            Step(seg, IF seg.st = "end" /\ ~seg.exc
                      THEN OpenExit("r", filename, seg.stream, disk)
                      ELSE [st |-> "ok", acquired |-> 0, disk |-> disk])
    IN
    /\ alive
    /\ gen.pc \in {"created", "suspended"}
    /\ Ran(IF first THEN FirstSegment ELSE LaterSegment)
    /\ UNCHANGED <<alive, filename, file_is_exists, headers_is_first_line,
                   headers_process_by, calls, rt>>

\* the caller abandons the iteration: the generator is closed (explicitly or
\* when it is collected), GeneratorExit unwinds both `with` blocks
Abandon ==
    /\ alive
    /\ gen.pc \in {"created", "suspended"}
    /\ gen' = [NoGen EXCEPT !.pc = "closed"]
    /\ open_files' = IF gen.pc = "suspended"
                     THEN ReleaseFiles(gen.stream, open_files)
                     ELSE open_files
    /\ last' = [NoLast EXCEPT !.op = "close", !.opens = gen.opens]
    /\ UNCHANGED <<session, disk, calls, rt>>

(***************************************************************************)
(* writelines                                                              *)
(***************************************************************************)
\* tsv._detect_headers_before_write, with the tuple assignment and the check
\* of first_line that follow it in writelines
DetectHeadersBeforeWrite(h, rows, isgen) ==
    IF rows = <<>>
    THEN [st |-> IF isgen THEN "StopIteration" ELSE "IndexError",
          headers |-> h, first_line |-> NoneRow, rest |-> rows]
    ELSE IF rows[1].kind # "dict"
    THEN [st |-> "ValueError", headers |-> h, first_line |-> NoneRow,
          rest |-> IF isgen THEN Tail(rows) ELSE rows]
    ELSE [st |-> IF Truthy(rows[1]) THEN "ok" ELSE "Error",
          headers |-> Keys(rows[1]), first_line |-> rows[1],
          rest |-> IF isgen THEN Tail(rows) ELSE rows]

\* dict.get(key, restval) of DictWriter._dict_to_list
DictGet(row, key, restval) ==
    IF \E i \in 1..Len(row.v) : row.v[i][1] = key
    THEN row.v[CHOOSE i \in 1..Len(row.v) : row.v[i][1] = key][2]
    ELSE restval

\* writer.writerow(row): the record handed to the stream, or the exception
WriteRow(isdict, fieldnames, row) ==
    IF isdict
    THEN CASE row.kind # "dict" ->
                [st |-> "AttributeError", rec |-> <<>>]
           [] ~(Range(Keys(row)) \subseteq Range(fieldnames)) ->
                [st |-> "ValueError", rec |-> <<>>]
           [] OTHER ->
                [st |-> "ok",
                 rec |-> [i \in 1..Len(fieldnames) |->
                             DictGet(row, fieldnames[i], "")]]
    ELSE CASE row.kind = "None" -> [st |-> "csv.Error", rec |-> <<>>]
           [] row.kind = "dict" -> [st |-> "ok", rec |-> Keys(row)]
           [] OTHER             -> [st |-> "ok", rec |-> row.v]

\* for line in rows: writer.writerow(line), stopping at the first exception
RECURSIVE WriteRows(_, _, _, _)
WriteRows(isdict, fieldnames, rows, acc) ==
    LET Written(w) ==
            WriteRows(isdict, fieldnames, Tail(rows),
                      [st  |-> w.st,
                       out |-> IF w.st = "ok" THEN Append(acc.out, w.rec)
                                              ELSE acc.out])
    IN  IF acc.st # "ok" \/ rows = <<>> THEN acc
        ELSE Written(WriteRow(isdict, fieldnames, Head(rows)))

\* a writelines that forgets the row header detection took from a generator
WriteBodyWithoutFirstLine(asdict, h, isgen, first_line, rest) ==
    IF ~has_headers(h) /\ asdict
    THEN [st |-> "csv.Error", out |-> <<>>]
    ELSE WriteRows(asdict, h, rest,
                   [st  |-> "ok",
                    out |-> IF has_headers(h) /\ asdict THEN <<h>> ELSE <<>>])

\* the body of `with self.writer(**kwargs) as writer` in writelines
WriteBody(asdict, h, isgen, first_line, rest) ==
    LET \* writer.writeheader()
        hdr == IF has_headers(h) /\ asdict
               THEN [st |-> "ok", out |-> <<h>>]
               ELSE [st |-> "ok", out |-> <<>>]
    IN  IF ~has_headers(h) /\ asdict
        THEN [st |-> "csv.Error", out |-> <<>>]
        ELSE WriteRows(asdict, h, rest,
                       \* if isinstance(rows, t.Generator):
                       \*     writer.writerow(first_line)
                       IF isgen THEN WriteRows(asdict, h, <<first_line>>, hdr)
                                ELSE hdr)

\* records written to an io.StringIO at its position
RECURSIVE WriteText(_, _)
WriteText(t, recs) ==
    IF recs = <<>> THEN t
    ELSE WriteText([t EXCEPT !.buf = IF t.pos < Len(t.buf)
                                     THEN [@ EXCEPT ![t.pos + 1] =
                                                       Line(Head(recs))]
                                     ELSE Append(@, Line(Head(recs))),
                             !.pos = @ + 1],
                   Tail(recs))

\* tsv.writer up to its yield: the exists check, then open, then the csv
\* writer (DictWriter needs its fieldnames)
WriterEnter(asdict, overwrite, h) ==
    IF file_is_exists /\ ~overwrite
    THEN [st |-> "FileExistsError", stream |-> "none", disk |-> disk]
    ELSE LET Opened(o) == IF o.st = "ok" /\ asdict /\ ~has_headers(h)
                          THEN [o EXCEPT !.st = "TypeError"]
                          ELSE o
         IN  Opened(OpenEnter("w", filename, text, disk))

Writelines(rows, isgen, asdict, overwrite) ==
    LET infer == asdict /\ ~has_headers(headers)
        \* dh: header inference; we: entering `with self.writer`; wb: the
        \* body; oe: how `with self.open` was left when the body completed
        Step(dh, we, wb, oe) ==
            LET got  == IF we.stream # "none" THEN 1 ELSE 0
                held == IF we.stream = "file" THEN open_files + 1
                                              ELSE open_files
            IN
            /\ headers' = dh.headers
            /\ text' = IF we.stream = "text" THEN WriteText(text, wb.out)
                                             ELSE text
            /\ disk' = IF we.stream = "file"
                       THEN [oe.disk EXCEPT !.content = Lines(wb.out)]
                       ELSE oe.disk
            /\ open_files' = ReleaseFiles(we.stream, held)
            /\ last' = [NoLast EXCEPT !.op = "writelines", !.err = oe.st,
                                      !.rows = rows, !.isgen = isgen,
                                      !.asdict = asdict,
                                      !.overwrite = overwrite,
                                      !.infer = infer,
                                      !.opens = got + oe.acquired,
                                      !.out = wb.out]
        Wrote(dh, we, wb) ==
            Step(dh, we, wb,
                 IF wb.st = "ok"
                 THEN OpenExit("w", filename, we.stream, we.disk)
                 ELSE [st |-> wb.st, acquired |-> 0, disk |-> we.disk])
        Entered(dh, we) ==
            Wrote(dh, we,
                  IF we.st = "ok"
                  THEN WriteBody(asdict, dh.headers, isgen, dh.first_line,
                                 dh.rest)
                  ELSE [st |-> we.st, out |-> <<>>])
        Inferred(dh) ==
            Entered(dh,
                    IF dh.st = "ok"
                    THEN WriterEnter(asdict, overwrite, dh.headers)
                    ELSE [st |-> dh.st, stream |-> "none", disk |-> disk])
    IN
    /\ alive
    /\ gen.pc \in {"none", "closed"}
    /\ calls < MaxCalls
    /\ calls' = calls + 1
    /\ Inferred(IF infer
                THEN DetectHeadersBeforeWrite(headers, rows, isgen)
                ELSE [st |-> "ok", headers |-> headers,
                      first_line |-> NoneRow, rest |-> rows])
    /\ UNCHANGED <<alive, filename, file_is_exists, headers_is_first_line,
                   headers_process_by, gen, rt>>

(***************************************************************************)
(* The character level: the csv module under the 'excel-tab' dialect       *)
(* (delimiter TAB, quotechar ", doublequote, lineterminator CR LF,         *)
(* QUOTE_MINIMAL, not strict), over an io.StringIO.  A text is a sequence  *)
(* of characters and a field is a sequence of characters.                  *)
(***************************************************************************)
TAB   == "\t"
LF    == "\n"
CR    == "\r"
QUOTE == "\""
EOL   == "<EOL>"      \* the end-of-line mark the parser is fed after a line

Chars     == {"a", TAB, LF, CR, QUOTE}
CharTexts == SeqsUpTo(Chars, MaxChars)

\* iteration of an io.StringIO: the lines of the text, each ending after LF
RECURSIVE SplitLines(_, _, _)
SplitLines(s, cur, acc) ==
    IF s = <<>>
    THEN IF cur = <<>> THEN acc ELSE Append(acc, cur)
    ELSE IF Head(s) = LF
         THEN SplitLines(Tail(s), <<>>, Append(acc, Append(cur, LF)))
         ELSE SplitLines(Tail(s), Append(cur, Head(s)), acc)

\* the parser of csv.reader: [state, field, fields]
ParseReset == [state |-> "START_RECORD", field |-> <<>>, fields |-> <<>>]

SaveField(st, to) ==
    [state |-> to, field |-> <<>>, fields |-> Append(st.fields, st.field)]

AddChar(st, c, to) == [st EXCEPT !.state = to, !.field = Append(@, c)]

ParseProcessChar(st, c) ==
    LET nl == c \in {LF, CR}
        s  == IF st.state = "START_RECORD" /\ c # EOL /\ ~nl
              THEN "START_FIELD" ELSE st.state
    IN
    CASE s = "START_RECORD" ->
            IF c = EOL THEN st ELSE [st EXCEPT !.state = "EAT_CRNL"]
      [] s = "START_FIELD" ->
            CASE c = EOL   -> SaveField(st, "START_RECORD")
              [] nl        -> SaveField(st, "EAT_CRNL")
              [] c = QUOTE -> [st EXCEPT !.state = "IN_QUOTED_FIELD"]
              [] c = TAB   -> SaveField(st, "START_FIELD")
              [] OTHER     -> AddChar(st, c, "IN_FIELD")
      [] s = "IN_FIELD" ->
            CASE c = EOL   -> SaveField(st, "START_RECORD")
              [] nl        -> SaveField(st, "EAT_CRNL")
              [] c = TAB   -> SaveField(st, "START_FIELD")
              [] OTHER     -> AddChar(st, c, "IN_FIELD")
      [] s = "IN_QUOTED_FIELD" ->
            CASE c = EOL   -> st
              [] c = QUOTE -> [st EXCEPT !.state = "QUOTE_IN_QUOTED_FIELD"]
              [] OTHER     -> AddChar(st, c, "IN_QUOTED_FIELD")
      [] s = "QUOTE_IN_QUOTED_FIELD" ->
            CASE c = EOL   -> SaveField(st, "START_RECORD")
              [] c = QUOTE -> AddChar(st, c, "IN_QUOTED_FIELD")
              [] c = TAB   -> SaveField(st, "START_FIELD")
              [] nl        -> SaveField(st, "EAT_CRNL")
              [] OTHER     -> AddChar(st, c, "IN_FIELD")
      [] s = "EAT_CRNL" ->
            CASE c = EOL   -> [st EXCEPT !.state = "START_RECORD"]
              [] nl        -> st
              [] OTHER     -> [st EXCEPT !.state = "ERROR"]
      [] OTHER -> st

\* one line fed to the parser, then the end-of-line mark
RECURSIVE ParseLine(_, _)
ParseLine(st, line) ==
    IF st.state = "ERROR" THEN st
    ELSE IF line = <<>> THEN ParseProcessChar(st, EOL)
    ELSE ParseLine(ParseProcessChar(st, Head(line)), Tail(line))

\* every next(csv.reader) over the lines: a record may span several lines,
\* and a record left open when the lines run out is delivered
RECURSIVE ParseLines(_, _, _)
ParseLines(lines, st, acc) ==
    IF lines = <<>>
    THEN IF st.field # <<>> \/ st.state = "IN_QUOTED_FIELD"
         THEN Append(acc, Line(Append(st.fields, st.field)))
         ELSE acc
    ELSE LET Fed(s) ==
                 CASE s.state = "ERROR" ->
                        ParseLines(Tail(lines), ParseReset,
                                   Append(acc, Malformed))
                   [] s.state = "START_RECORD" ->
                        ParseLines(Tail(lines), ParseReset,
                                   Append(acc, Line(s.fields)))
                   [] OTHER ->
                        ParseLines(Tail(lines), s, acc)
         IN  Fed(ParseLine(st, Head(lines)))

\* csv.reader(io.StringIO(chars), dialect='excel-tab') as a stream of lines
ParseText(chars) == ParseLines(SplitLines(chars, <<>>, <<>>), ParseReset, <<>>)

RECURSIVE DoubleQuotes(_)
DoubleQuotes(field) ==
    IF field = <<>> THEN <<>>
    ELSE (IF Head(field) = QUOTE THEN <<QUOTE, QUOTE>> ELSE <<Head(field)>>)
         \o DoubleQuotes(Tail(field))

\* a field as csv.writer writes it; alone: it is the only field of its row
JoinAppend(field, alone) ==
    IF \/ \E i \in 1..Len(field) : field[i] \in {TAB, QUOTE, CR, LF}
       \/ field = <<>> /\ alone
    THEN <<QUOTE>> \o DoubleQuotes(field) \o <<QUOTE>>
    ELSE field

RECURSIVE JoinFields(_, _)
JoinFields(rec, alone) ==
    IF rec = <<>> THEN <<>>
    ELSE IF Len(rec) = 1 THEN JoinAppend(rec[1], alone)
    ELSE JoinAppend(Head(rec), alone) \o <<TAB>> \o JoinFields(Tail(rec), alone)

\* writer.writerow(rec) for every record, into an empty io.StringIO
RECURSIVE FormatText(_)
FormatText(recs) ==
    IF recs = <<>> THEN <<>>
    ELSE JoinFields(Head(recs), Len(Head(recs)) = 1) \o <<CR, LF>>
         \o FormatText(Tail(recs))

(***************************************************************************)
(* The documented round trip (module docstring):                           *)
(*     rows_  = tsv(text=source).readlines()                               *)
(*     result = tsv(text="").writelines(rows_, overwrite=True)             *)
(* with the variants a caller has: headers_is_first_line given as False,   *)
(* and the rows collected into a list before they are written.             *)
(***************************************************************************)
\* the rows of the generator collected until it ends or raises
RECURSIVE ReadAll(_, _, _)
ReadAll(src, rd, acc) ==
    LET Got(l) ==
            CASE l.st = "yield" -> ReadAll(src, l.rd, Append(acc, l.row))
              [] l.st = "end"   -> [st |-> "ok", rows |-> acc]
              [] OTHER          -> [st |-> l.st, rows |-> acc]
    IN  Got(RowLoop(src, rd, None))

\* tsv(text=chars, headers_is_first_line=hifl).readlines(), run to its end
ReadText(chars, hifl) ==
    LET rd0 == [asdict |-> FALSE, fieldnames |-> NoneH, pos |-> 0,
                rln |-> 0, dln |-> 0]
        Detected(src, dh) ==
            IF dh.st # "ok" THEN [st |-> Escaped(dh.st), rows |-> <<>>]
            ELSE ReadAll(src, dh.rd, <<>>)
        Opened(src) == Detected(src, DetectHeaders(NoneH, hifl, src, rd0))
    IN  Opened(ParseText(chars))

\* tsv(text="").writelines(rows, overwrite=True): the returned getvalue()
WriteTextOf(rows, isgen) ==
    LET Wrote(wb) == [st |-> wb.st, out |-> FormatText(wb.out)]
    IN  Wrote(WriteBody(FALSE, NoneH, isgen, NoneRow, rows))

InitRT ==
    /\ alive = FALSE
    /\ filename = None
    /\ text = NoText
    /\ file_is_exists = FALSE
    /\ headers = NoneH
    /\ headers_is_first_line = TRUE
    /\ headers_process_by = None
    /\ disk = [exists |-> FALSE, content |-> <<>>]
    /\ gen = NoGen
    /\ calls = 0
    /\ open_files = 0
    /\ last = NoLast
    /\ \E s \in CharTexts : rt = [NoRT EXCEPT !.pc = "source", !.src = s]

\* rows_ = tsv(text=source).readlines(): the generator, or list(...) of it
RTReadlines(hifl, lazy) ==
    /\ rt.pc = "source"
    /\ LET Read(r) ==
               rt' = [rt EXCEPT !.pc = IF r.st = "ok" THEN "rows" ELSE "done",
                                !.hifl = hifl, !.lazy = lazy,
                                !.rows = r.rows, !.err = r.st]
       IN  Read(IF lazy THEN [st |-> "ok", rows |-> <<>>]
                        ELSE ReadText(rt.src, hifl))
    /\ UNCHANGED <<session, disk, gen, calls, open_files, last>>

\* result = tsv(text="").writelines(rows_, overwrite=True); a generator is
\* consumed by the loop of writelines
RTWritelines ==
    /\ rt.pc = "rows"
    /\ LET Wrote(r, w) ==
               rt' = [rt EXCEPT !.pc = "done",
                                !.rows = IF w.st = "ok" THEN r.rows ELSE @,
                                !.err = IF w.st # "ok" THEN w.st ELSE r.st,
                                !.out = w.out]
           Rows(r) == Wrote(r, WriteTextOf(r.rows, rt.lazy))
       IN  Rows(IF rt.lazy THEN ReadText(rt.src, rt.hifl)
                           ELSE [st |-> "ok", rows |-> rt.rows])
    /\ UNCHANGED <<session, disk, gen, calls, open_files, last>>

Next ==
    \/ \E f \in FileArgs, t \in TextArgs, h \in HeaderArgs,
          hifl \in BOOLEAN, hpb \in TransformArgs :
          Construct(f, t, h, hifl, hpb)
    \/ \E asdict \in BOOLEAN, pb \in RowTransformArgs : StartRead(asdict, pb)
    \/ Resume
    \/ Abandon
    \/ \E rows \in RowSeqs, isgen, asdict, overwrite \in BOOLEAN :
          Writelines(rows, isgen, asdict, overwrite)

Spec == Init /\ [][Next]_vars

(***************************************************************************)
(* The documented write usage, tsv(...).writelines(rows, ...): a Session   *)
(* and the first call made on it.  writelines reads neither                *)
(* headers_is_first_line nor headers_process_by, which keep their defaults.*)
(***************************************************************************)
NextWrite ==
    \/ \E f \in FileArgs, t \in TextArgs, h \in HeaderArgs :
          Construct(f, t, h, TRUE, None)
    \/ /\ calls = 0
       /\ \E rows \in RowSeqs, isgen, asdict, overwrite \in BOOLEAN :
             Writelines(rows, isgen, asdict, overwrite)

SpecWrite == Init /\ [][NextWrite]_vars

NextRT ==
    \/ \E hifl, lazy \in BOOLEAN : RTReadlines(hifl, lazy)
    \/ RTWritelines

SpecRT == InitRT /\ [][NextRT]_vars

(***************************************************************************)
(* Properties                                                              *)
(***************************************************************************)
\* the source a read starts from, and the position it starts at
SrcNow == IF text.set THEN text.buf ELSE disk.content
PosNow == IF text.set THEN text.pos
          ELSE IF gen.pc = "suspended" THEN gen.fpos ELSE 0

\* C1: construction with both a file path and a text fails with the
\* configuration error, construction with neither fails with it, and every
\* constructed Session has exactly one of {file path, text buffer} set.
C1_ExactlyOneSource ==
    /\ (last.op = "init" /\ last.farg # None
          /\ last.targ \in {"str", "StringIO"}) => last.err = "Error"
    /\ (last.op = "init" /\ last.farg = None /\ last.targ = "None")
          => last.err = "Error"
    /\ alive => ((filename # None) # text.set)

\* C2: a writelines call on a file-backed Session whose destination exists
\* when the call is made fails with FileExistsError and leaves the file as
\* it was unless overwrite was granted; with overwrite=True it is not
\* refused and the file holds the newly written rows.
C2_ExistsCheck ==
    [][(/\ last'.op = "writelines" /\ ~last'.infer
        /\ ~text.set /\ filename # None /\ disk.exists)
         => IF last'.overwrite
            THEN /\ last'.err # "FileExistsError"
                 /\ last'.err = "ok" => disk'.content = Lines(last'.out)
            ELSE /\ last'.err = "FileExistsError"
                 /\ disk' = disk]_vars

\* C3: the first next() of a read on a file-backed Session fails with
\* FileNotFoundError, before any stream is opened and any line examined,
\* when the file does not exist on disk, and does not fail with
\* FileNotFoundError when the file exists on disk.
C3_NotFound ==
    [][(last'.op = "next" /\ last'.first /\ ~text.set /\ filename # None)
         => /\ ~disk.exists => /\ last'.err = "FileNotFoundError"
                               /\ last'.opens = 0
                               /\ last'.examined = 0
                               /\ last'.row = NoneRow
            /\ disk.exists => last'.err # "FileNotFoundError"]_vars

\* the record a mapping row is written as under the header list h
ValuesUnder(h, row) ==
    [i \in 1..Len(h) |->
        LET S == {j \in 1..Len(row.v) : row.v[j][1] = h[i]} IN
        IF S = {} THEN "" ELSE row.v[CHOOSE j \in S : TRUE][2]]

MappingsOver(rows, h) ==
    \A i \in 1..Len(rows) :
        /\ rows[i].kind = "dict"
        /\ \A j \in 1..Len(rows[i].v) : \E k \in 1..Len(h) : rows[i].v[j][1] = h[k]

\* header row, then every row in input order, each once
MappingOutput(h, rows) ==
    <<h>> \o [i \in 1..Len(rows) |-> ValuesUnder(h, rows[i])]

\* the records a successful write leaves in its destination: the whole
\* file, or the records of the buffer that end at its position
Delivered(out) ==
    /\ (~text.set) => (disk.exists /\ disk.content = Lines(out))
    /\ text.set => /\ text.pos >= Len(out)
                   /\ SubSeq(text.buf, text.pos - Len(out) + 1, text.pos)
                        = Lines(out)

\* a mapping-mode write that inferred its headers from rows that are all
\* mappings over the first row's keys, and was not refused by the exists
\* check
C4_Case ==
    /\ last.op = "writelines" /\ last.asdict /\ last.infer
    /\ last.rows # <<>>
    /\ last.rows[1].kind = "dict"
    /\ MappingsOver(last.rows, Keys(last.rows[1]))
    /\ last.err # "FileExistsError"

C4_Result ==
    /\ headers = Keys(last.rows[1])
    /\ last.out = MappingOutput(Keys(last.rows[1]), last.rows)
    /\ Delivered(last.out)

\* C4 as stated: mapping-mode writelines with no headers set and a first row
\* that is a mapping sets the headers to its keys and writes the header row,
\* the first row and every remaining row, each once, list or generator.
C4_AnyMapping == C4_Case => C4_Result

\* C4 (amended): mapping-mode writelines with no headers set and a first
\* row that is a non-empty mapping sets the headers to its keys and writes
\* the header row, the first row and every remaining row, each once, list
\* or generator.
C4_NonEmptyMapping == (C4_Case /\ Truthy(last.rows[1])) => C4_Result

\* C4: a generator of MaxRows non-empty mappings was written in full
C4_Witness ==
    /\ C4_Case /\ Truthy(last.rows[1])
    /\ last.isgen
    /\ Len(last.rows) = MaxRows
    /\ last.err = "ok"
    /\ Len(last.out) = MaxRows + 1

\* rows that suit the writer: lists in list mode, mappings over the headers
\* in mapping mode
WellFormed(asdict, h, rows) ==
    IF asdict THEN MappingsOver(rows, h)
    ELSE \A i \in 1..Len(rows) : rows[i].kind = "list"

PlainOutput(asdict, h, rows) ==
    IF asdict THEN MappingOutput(h, rows)
    ELSE [i \in 1..Len(rows) |-> rows[i].v]

\* C5: when header inference did not run, writelines given a generator
\* writes exactly the generator's rows after the optional header row and
\* fails on no well-formed input, as it does for a list.
C5_GeneratorRows ==
    [][(/\ last'.op = "writelines" /\ last'.isgen /\ ~last'.infer
        /\ WellFormed(last'.asdict, headers, last'.rows)
        /\ last'.err # "FileExistsError")
         => /\ last'.err \notin {"csv.Error", "AttributeError"}
            /\ last'.out = PlainOutput(last'.asdict, headers, last'.rows)]_vars

\* C7: list-mode reading with no row transform yields one field list for
\* every line of the source, in order, beginning with the first line,
\* whatever headers_is_first_line is.
C7_ListModeEveryLine ==
    [][(/\ last'.op = "next" /\ ~gen.asdict /\ gen.process_by = None
        /\ headers_process_by = None
        /\ text.set /\ text.pos < Len(text.buf)
        /\ text.buf[text.pos + 1] \notin {Blank, Malformed})
         => /\ last'.err = "ok"
            /\ last'.row = ListRow(text.buf[text.pos + 1].f)]_vars

\* C8: when headers_process_by raises during a read, the failure reaches the
\* caller, no row is yielded and the header set is what it was before the
\* read began.
C8_TransformFailure ==
    [][(last'.op = "next" /\ last'.first /\ headers_process_by = "raise"
        /\ last'.err = "TransformError")
         => /\ last'.err = "TransformError"
            /\ last'.row = NoneRow
            /\ headers' = headers]_vars

\* header detection will run in the next step of the generator
DetectionRuns ==
    /\ gen.pc = "created"
    /\ ~has_headers(headers) /\ headers_is_first_line
    /\ file_is_exists
    /\ text.set \/ disk.exists

\* C9: header detection (no headers supplied, headers_is_first_line true)
\* skips blank records and adopts the first non-empty one as the header
\* line; when the stream is exhausted first, the read fails with Error.
C9_Exhausted ==
    [][(last'.op = "next" /\ DetectionRuns)
         => /\ (\A i \in (PosNow + 1)..Len(SrcNow) : SrcNow[i] = Blank)
                  => last'.err = "Error"
            /\ \A i \in (PosNow + 1)..Len(SrcNow) :
                  (/\ SrcNow[i] \notin {Blank, Malformed}
                   /\ \A j \in (PosNow + 1)..(i - 1) : SrcNow[j] = Blank
                   /\ headers_process_by = None)
                  => headers' = SrcNow[i].f]_vars

\* C10: a file stream opened by an operation is closed on every exit path,
\* an operation acquires at most one stream, a file stream is open only
\* while a read is suspended, and the text stream is never closed.
C10_Streams ==
    /\ gen.pc # "suspended" => open_files = 0
    /\ open_files <= 1
    /\ last.opens <= 1
    /\ gen.opens <= 1
    /\ ~text.closed

\* C6: the list-mode round trip, tsv(text=source).readlines() handed to
\* tsv(text="").writelines(rows, overwrite=True), returns a text equal to
\* the source.
C6_RoundTrip ==
    (rt.pc = "done" /\ rt.hifl /\ rt.lazy)
        => (rt.err = "ok" /\ rt.out = rt.src)

====
